---- MODULE Spec2Model ----
(***************************************************************************)
(* A model of the repository-update service:                               *)
(*   src/services/repository_service.py  RepositoryService                 *)
(*   src/utils/git_helpers.py            pull_updates, GitPullFailedError  *)
(* Python text is modelled by TLA+ strings; posixpath's functions, the     *)
(* error rendering and both layers of exception handling are computed the  *)
(* way the code computes them.  The file system and the external git       *)
(* process are the environment: their answers are chosen nondeterministi-  *)
(* cally.                                                                  *)
(***************************************************************************)
EXTENDS Integers, Sequences, FiniteSets, TLC

VARIABLES
    base_repo_path,  \* RepositoryService.base_repo_path, set by __init__
    linkTarget,      \* environment: where <base>/a points when it is a symbolic link
    pc,              \* position of the one call in flight
    repo_name,       \* argument of update_repository
    repo_path,       \* os.path.join(base_repo_path, sane_repo_name)
    pulls,           \* pull_updates invocations made by the call
    spawns,          \* external processes spawned by the call
    isdir,           \* what os.path.isdir(repo_dir) answered in pull_updates
    proc,            \* what the external process did
    pullOutcome,     \* what pull_updates handed to its caller (return or raise)
    strCalls,        \* GitPullFailedError.__str__ evaluations of the call
    result           \* what update_repository handed to its caller

vars == <<base_repo_path, linkTarget, pc, repo_name, repo_path, pulls, spawns,
          isdir, proc, pullOutcome, strCalls, result>>

---------------------------------------------------------------------------
(* Bounds of the model *)

MaxNameLen == 3
MaxStreamLen == 2
MaxCapturedLen == 1

(* Python's None, and an optional value that is present *)
None == <<>>
Str(s) == <<"str", s>>
Bytes(s) == <<"bytes", s>>
IntVal(n) == <<"int", n>>
isinstance_str(v) == v # None /\ v[1] = "str"

RECURSIVE StringsUpTo(_, _)
StringsUpTo(chars, n) ==
    IF n = 0 THEN {""}
    ELSE LET shorter == StringsUpTo(chars, n - 1)
         IN  shorter \cup {s \o c : s \in shorter, c \in chars}

---------------------------------------------------------------------------
(* Python str methods *)

Whitespace == {" ", "\t", "\n", "\r", "\f"}

startswith(s, prefix) ==
    Len(prefix) <= Len(s) /\ SubSeq(s, 1, Len(prefix)) = prefix

endswith(s, suffix) ==
    Len(suffix) <= Len(s) /\ SubSeq(s, Len(s) - Len(suffix) + 1, Len(s)) = suffix

\* sub in s
Contains(sub, s) ==
    \E i \in 1..(Len(s) - Len(sub) + 1) : SubSeq(s, i, i + Len(sub) - 1) = sub

RECURSIVE lstrip(_)
lstrip(s) ==
    IF s # "" /\ SubSeq(s, 1, 1) \in Whitespace
    THEN lstrip(SubSeq(s, 2, Len(s))) ELSE s

RECURSIVE rstrip(_)
rstrip(s) ==
    IF s # "" /\ SubSeq(s, Len(s), Len(s)) \in Whitespace
    THEN rstrip(SubSeq(s, 1, Len(s) - 1)) ELSE s

strip(s) == rstrip(lstrip(s))

\* s.split("/")
split(s) ==
    LET F[i \in 0..Len(s)] ==
            IF i = 0 THEN <<"">>
            ELSE LET prev == F[i - 1]
                     c == SubSeq(s, i, i)
                 IN  IF c = "/" THEN Append(prev, "")
                     ELSE [prev EXCEPT ![Len(prev)] = @ \o c]
    IN  F[Len(s)]

\* "/".join(comps)
RECURSIVE slash_join(_)
slash_join(comps) ==
    IF comps = <<>> THEN ""
    ELSE IF Len(comps) = 1 THEN comps[1]
    ELSE comps[1] \o "/" \o slash_join(Tail(comps))

\* " ".join(parts)
RECURSIVE space_join(_)
space_join(parts) ==
    IF parts = <<>> THEN ""
    ELSE IF Len(parts) = 1 THEN parts[1]
    ELSE parts[1] \o " " \o space_join(Tail(parts))

DigitChar == <<"0", "1", "2", "3", "4", "5", "6", "7", "8", "9">>

\* str(n) of an integer, as an f-string renders it
RECURSIVE NatToStr(_)
NatToStr(n) ==
    IF n < 10 THEN DigitChar[n + 1]
    ELSE NatToStr(n \div 10) \o DigitChar[(n % 10) + 1]

IntToStr(n) == IF n < 0 THEN "-" \o NatToStr(0 - n) ELSE NatToStr(n)

\* repr(v)[:100] of None, a str or a bytes value without quotes or escapes
ReprLimit == 100
repr(v) ==
    LET full == IF v = None THEN "None"
                ELSE IF v[1] = "bytes" THEN "b'" \o v[2] \o "'"
                ELSE "'" \o v[2] \o "'"
    IN  IF Len(full) > ReprLimit THEN SubSeq(full, 1, ReprLimit) ELSE full

---------------------------------------------------------------------------
(* posixpath *)

cwd == "/w"

isabs(s) == startswith(s, "/")

\* os.path.join(a, p) for two arguments
join(a, p) ==
    IF startswith(p, "/") THEN p
    ELSE IF a = "" \/ endswith(a, "/") THEN a \o p
    ELSE a \o "/" \o p

\* the loop of normpath over the components
RECURSIVE norm_comps(_, _, _)
norm_comps(comps, new_comps, initial_slashes) ==
    IF comps = <<>> THEN new_comps
    ELSE LET comp == Head(comps)
             rest == Tail(comps)
         IN  IF comp \in {"", "."}
             THEN norm_comps(rest, new_comps, initial_slashes)
             ELSE IF \/ comp # ".."
                     \/ (initial_slashes = 0 /\ new_comps = <<>>)
                     \/ (new_comps # <<>> /\ new_comps[Len(new_comps)] = "..")
             THEN norm_comps(rest, Append(new_comps, comp), initial_slashes)
             ELSE IF new_comps # <<>>
             THEN norm_comps(rest, SubSeq(new_comps, 1, Len(new_comps) - 1),
                             initial_slashes)
             ELSE norm_comps(rest, new_comps, initial_slashes)

normpath(path) ==
    IF path = "" THEN "."
    ELSE LET initial_slashes ==
                 IF ~startswith(path, "/") THEN 0
                 ELSE IF startswith(path, "//") /\ ~startswith(path, "///") THEN 2
                 ELSE 1
             comps == norm_comps(split(path), <<>>, initial_slashes)
             joined == slash_join(comps)
             out == IF initial_slashes = 2 THEN "//" \o joined
                    ELSE IF initial_slashes = 1 THEN "/" \o joined
                    ELSE joined
         IN  IF out = "" THEN "." ELSE out

abspath(path) ==
    IF isabs(path) THEN normpath(path) ELSE normpath(join(cwd, path))

---------------------------------------------------------------------------
(* Exceptions.  Every exception value carries the fields of the richest   *)
(* class, GitPullFailedError; the others leave them None.                 *)

Exc(cls, msg) ==
    [cls |-> cls, message |-> msg, stderr |-> None, stdout |-> None,
     returncode |-> None, cmd_str |-> ""]

NoExc == Exc("", "")

\* the classes an "except Exception" clause catches, with their own class
ExceptionClasses ==
    {"Exception", "ValueError", "GitPullFailedError", "RepositoryServiceError",
     "FileNotFoundError", "PermissionError", "UnicodeDecodeError",
     "TimeoutExpired"}

IsException(cls) == cls \in ExceptionClasses

List(seq) == <<"list", seq>>

\* GitPullFailedError.__init__
GitPullFailedError(message, stderr, stdout, returncode, cmd) ==
    [cls |-> "GitPullFailedError",
     message |-> message,
     stderr |-> stderr,
     stdout |-> stdout,
     returncode |-> returncode,
     cmd_str |-> IF cmd # None /\ cmd[1] = "list" THEN space_join(cmd[2])
                 ELSE IF cmd # None THEN cmd[2]
                 ELSE "Unknown command"]

\* StrWithReturncode as an if-elif chain: standard output only when standard
\* error has no content, and no note when neither has
StrWithReturncode_OneStream(e) ==
    LET has_stderr_content == isinstance_str(e.stderr) /\ strip(e.stderr[2]) # ""
        has_stdout_content == isinstance_str(e.stdout) /\ strip(e.stdout[2]) # ""
    IN  <<"Command '" \o e.cmd_str \o "' returned non-zero exit status "
            \o IntToStr(e.returncode[2]) \o ".">>
        \o (IF has_stderr_content
            THEN <<"Git Stderr: '" \o strip(e.stderr[2]) \o "'">>
            ELSE IF has_stdout_content
            THEN <<"Git Stdout: '" \o strip(e.stdout[2]) \o "'">>
            ELSE <<>>)

\* the branch of __str__ for an error that carries an exit code
StrWithReturncode(e) ==
    LET has_stderr_content == isinstance_str(e.stderr) /\ strip(e.stderr[2]) # ""
        has_stdout_content == isinstance_str(e.stdout) /\ strip(e.stdout[2]) # ""
    IN  <<"Command '" \o e.cmd_str \o "' returned non-zero exit status "
            \o IntToStr(e.returncode[2]) \o ".">>
        \o (IF has_stderr_content
            THEN <<"Git Stderr: '" \o strip(e.stderr[2]) \o "'">> ELSE <<>>)
        \o (IF has_stdout_content
            THEN <<"Git Stdout: '" \o strip(e.stdout[2]) \o "'">> ELSE <<>>)
        \o (IF ~has_stderr_content /\ ~has_stdout_content
            THEN <<"Git Stderr/Stdout: <No output or only whitespace produced by git command. Raw Stderr: "
                     \o repr(e.stderr) \o ", Raw Stdout: " \o repr(e.stdout) \o ">">>
            ELSE <<>>)

\* the branch of __str__ for an error without an exit code
StrWithoutReturncode(e) ==
    LET main_message == e.message
        stderr_content == IF isinstance_str(e.stderr) THEN strip(e.stderr[2]) ELSE ""
        stdout_content == IF isinstance_str(e.stdout) THEN strip(e.stdout[2]) ELSE ""
    IN  <<main_message>>
        \o (IF e.cmd_str # "Unknown command" /\ ~Contains(e.cmd_str, main_message)
            THEN <<"(Command intended: '" \o e.cmd_str \o "')">> ELSE <<>>)
        \o (IF stderr_content # ""
            THEN <<"Git Stderr (captured): '" \o stderr_content \o "'">>
            ELSE IF stdout_content # ""
            THEN <<"Git Stdout (captured): '" \o stdout_content \o "'">>
            ELSE <<>>)

\* GitPullFailedError.__str__
GitPullFailedError_str(e) ==
    space_join(IF e.returncode # None THEN StrWithReturncode(e)
               ELSE StrWithoutReturncode(e))

\* str(e) of any exception
str(e) == IF e.cls = "GitPullFailedError" THEN GitPullFailedError_str(e) ELSE e.message

\* the __str__ evaluations that str(e) makes
StrCallsOf(e) ==
    IF e.cls = "GitPullFailedError" THEN {[err |-> e, text |-> GitPullFailedError_str(e)]}
    ELSE {}

---------------------------------------------------------------------------
(* git_helpers.pull_updates *)

GIT_OPERATION_TIMEOUT == 60

git_command == <<"git", "pull">>

NoOutcome == [kind |-> "none", value |-> "", exc |-> NoExc]
Raise(e) == [kind |-> "raise", value |-> "", exc |-> e]
Returned(s) == [kind |-> "return", value |-> s, exc |-> NoExc]

\* DirectoryNotFound raised without cmd=git_command
DirectoryNotFound_NoCommand(repo_dir) ==
    GitPullFailedError("Repository directory not found: " \o repo_dir,
                       None, None, None, None)

\* the error raised before the try block when repo_dir is no directory
DirectoryNotFound(repo_dir) ==
    GitPullFailedError("Repository directory not found: " \o repo_dir,
                       None, None, None, List(git_command))

\* the error raised inside the try block on a non-zero exit status
PullOperationFailed(returncode, stdout, stderr) ==
    GitPullFailedError("Git pull operation failed.",
                       Str(stderr), Str(stdout), IntVal(returncode), List(git_command))

\* PullTryBody returning the text it logs instead of process.stdout
PullTryBody_LoggedOutput(returncode, stdout, stderr) ==
    IF returncode # 0 THEN Raise(PullOperationFailed(returncode, stdout, stderr))
    ELSE Returned(IF stdout # "" THEN strip(stdout) ELSE "No output.")

\* the body of the try block once subprocess.run has returned
PullTryBody(returncode, stdout, stderr) ==
    IF returncode # 0 THEN Raise(PullOperationFailed(returncode, stdout, stderr))
    ELSE Returned(stdout)

\* PullExcept whose last clause reports the fault without its detail
PullExcept_NoDetail(x) ==
    IF x.cls = "FileNotFoundError"
    THEN Raise(GitPullFailedError(
             "Git command '" \o git_command[1]
                 \o "' not found. Ensure git is installed and in PATH.",
             None, None, None, List(git_command)))
    ELSE IF x.cls = "TimeoutExpired"
    THEN Raise(GitPullFailedError(
             "Git operation timed out after " \o IntToStr(GIT_OPERATION_TIMEOUT)
                 \o " seconds.",
             x.stderr, x.stdout, None, List(git_command)))
    ELSE Raise(GitPullFailedError(
             "An unexpected error occurred during git pull.",
             None, None, None, List(git_command)))

\* PullExcept without the clause for subprocess.TimeoutExpired
PullExcept_NoTimeoutClause(x) ==
    IF x.cls = "FileNotFoundError"
    THEN Raise(GitPullFailedError(
             "Git command '" \o git_command[1]
                 \o "' not found. Ensure git is installed and in PATH.",
             None, None, None, List(git_command)))
    ELSE Raise(GitPullFailedError(
             "An unexpected error occurred during git pull: " \o str(x),
             None, None, None, List(git_command)))

\* the except clauses of pull_updates, tried in order on an exception x
\* raised inside the try block
PullExcept(x) ==
    IF x.cls = "FileNotFoundError"
    THEN Raise(GitPullFailedError(
             "Git command '" \o git_command[1]
                 \o "' not found. Ensure git is installed and in PATH.",
             None, None, None, List(git_command)))
    ELSE IF x.cls = "TimeoutExpired"
    THEN Raise(GitPullFailedError(
             "Git operation timed out after " \o IntToStr(GIT_OPERATION_TIMEOUT)
                 \o " seconds.",
             x.stderr, x.stdout, None, List(git_command)))
    ELSE IF IsException(x.cls)
    THEN Raise(GitPullFailedError(
             "An unexpected error occurred during git pull: " \o str(x),
             None, None, None, List(git_command)))
    ELSE Raise(x)

\* the try statement of pull_updates: what leaves it, given what its body did
PullTry(body) == IF body.kind = "raise" THEN PullExcept(body.exc) ELSE body

\* the __str__ evaluations the except clauses make on x
PullExceptStrCalls(body) ==
    IF /\ body.kind = "raise"
       /\ body.exc.cls \notin {"FileNotFoundError", "TimeoutExpired"}
       /\ IsException(body.exc.cls)
    THEN StrCallsOf(body.exc) ELSE {}

---------------------------------------------------------------------------
(* repository_service.RepositoryService *)

RepositoryServiceError(msg) == Exc("RepositoryServiceError", msg)

NoValue == [status |-> "", output |-> ""]
NoResult == [kind |-> "none", value |-> NoValue, exc |-> NoExc]
ServiceRaise(e) == [kind |-> "raise", value |-> NoValue, exc |-> e]
ServiceReturn(v) == [kind |-> "return", value |-> v, exc |-> NoExc]

\* _sanitize_repo_name without the test for '..'
sanitize_repo_name_AbsoluteOnly(name) ==
    IF isabs(name)
    THEN Raise(Exc("ValueError",
                   "Invalid repository name: contains '..' or is an absolute path."))
    ELSE Returned(name)

\* _sanitize_repo_name: the name, or the ValueError it raises
sanitize_repo_name(name) ==
    IF Contains("..", name) \/ isabs(name)
    THEN Raise(Exc("ValueError",
                   "Invalid repository name: contains '..' or is an absolute path."))
    ELSE Returned(name)

\* the except clause around _sanitize_repo_name
InvalidName(name, ve) ==
    RepositoryServiceError("Invalid repository name '" \o name \o "': " \o str(ve))

\* the prefix test made against the base path followed by a separator
OutsideBase_RequiresSeparator(base, path) ==
    ~startswith(abspath(path), base \o "/")

\* the defense-in-depth test on the joined path
OutsideBase(base, path) == ~startswith(abspath(path), base)

PathEscape(name) ==
    RepositoryServiceError("Invalid repository path for '" \o name \o "'.")

\* ServiceTry whose first except clause re-raises the GitPullFailedError
ServiceTry_Unwrapped(name, pulled) ==
    IF pulled.kind = "return"
    THEN ServiceReturn([status |-> "success",
                        output |-> IF pulled.value # "" THEN pulled.value
                                   ELSE "No new output from git pull."])
    ELSE ServiceRaise(pulled.exc)

\* the try statement around pull_updates: what update_repository hands to
\* its caller, given what pull_updates handed to it
ServiceTry(name, pulled) ==
    IF pulled.kind = "return"
    THEN ServiceReturn([status |-> "success",
                        output |-> IF pulled.value # "" THEN pulled.value
                                   ELSE "No new output from git pull."])
    ELSE IF pulled.exc.cls = "GitPullFailedError"
    THEN ServiceRaise(RepositoryServiceError(
             "Error processing repository '" \o name \o "': " \o str(pulled.exc)))
    ELSE IF IsException(pulled.exc.cls)
    THEN ServiceRaise(RepositoryServiceError(
             "Unexpected error processing repository '" \o name \o "': "
                 \o str(pulled.exc)))
    ELSE ServiceRaise(pulled.exc)

ServiceTryStrCalls(pulled) ==
    IF pulled.kind = "raise" /\ IsException(pulled.exc.cls)
    THEN StrCallsOf(pulled.exc) ELSE {}

---------------------------------------------------------------------------
(* The environment: the caller's inputs, the file system, the git process *)

NameChars == {".", "/", "a"}
RepoNames == StringsUpTo(NameChars, MaxNameLen)

\* the process's streams; X and Y occur in no text of the program
StdoutChars == {"Y", " "}
StderrChars == {"X", " "}
StdoutTexts == StringsUpTo(StdoutChars, MaxStreamLen)
StderrTexts == StringsUpTo(StderrChars, MaxStreamLen)

\* what a TimeoutExpired carries for a stream: nothing, bytes or text
Captured(chars) ==
    LET texts == StringsUpTo(chars, MaxCapturedLen)
    IN  {None} \cup {Str(s) : s \in texts} \cup {Bytes(s) : s \in texts}

ReturnCodes == {0, 1, -9}

BaseInputs == {"/r", "/r/", "r", "/"}

\* where <base>/a leads: "" when it is an ordinary entry, else the directory
\* its symbolic link names
LinkTargets == {"", "/x", "/ra"}

\* faults of subprocess.run before a process exists
SpawnFaults ==
    {Exc("FileNotFoundError", "[Errno 2] No such file or directory: 'git'"),
     Exc("PermissionError", "[Errno 13] Permission denied: 'git'")}

\* faults of subprocess.run after the process has exited
WaitFaults ==
    {Exc("UnicodeDecodeError",
         "'utf-8' codec can't decode byte 0xff in position 0: invalid start byte")}

NoProc == [state |-> "none", overruns |-> FALSE, returncode |-> None,
           stdout |-> None, stderr |-> None]

\* the directory the operating system reaches through `path`
RealPath(base, link, path) ==
    LET p == abspath(path)
        l == join(base, "a")
    IN  IF link # "" /\ (p = l \/ startswith(p, l \o "/"))
        THEN link \o SubSeq(p, Len(l) + 1, Len(p))
        ELSE p

---------------------------------------------------------------------------
(* The state machine *)

\* RepositoryService.__init__ has succeeded: the base path is absolute,
\* normalized and a directory
Init ==
    /\ base_repo_path \in {abspath(b) : b \in BaseInputs}
    /\ linkTarget \in LinkTargets
    /\ pc = "idle"
    /\ repo_name = ""
    /\ repo_path = ""
    /\ pulls = 0
    /\ spawns = 0
    /\ isdir = "unasked"
    /\ proc = NoProc
    /\ pullOutcome = NoOutcome
    /\ strCalls = {}
    /\ result = NoResult

\* pull_updates has left with `pulled`: update_repository finishes
Finish(name, pulled, calls) ==
    /\ pullOutcome' = pulled
    /\ strCalls' = calls \cup ServiceTryStrCalls(pulled)
    /\ result' = ServiceTry(name, pulled)
    /\ pc' = "done"

\* update_repository(name), up to the point where it blocks in subprocess.run
UpdateRepository(name, dir) ==
    /\ pc = "idle"
    /\ repo_name' = name
    /\ LET sane == sanitize_repo_name(name)
           path == join(base_repo_path, sane.value)
       IN  IF sane.kind = "raise"
           THEN /\ result' = ServiceRaise(InvalidName(name, sane.exc))
                /\ pc' = "done"
                /\ UNCHANGED <<repo_path, pulls, isdir, pullOutcome, strCalls>>
           ELSE IF OutsideBase(base_repo_path, path)
           THEN /\ result' = ServiceRaise(PathEscape(name))
                /\ repo_path' = path
                /\ pc' = "done"
                /\ UNCHANGED <<pulls, isdir, pullOutcome, strCalls>>
           ELSE /\ repo_path' = path
                /\ pulls' = pulls + 1
                /\ isdir' = IF dir THEN "dir" ELSE "nodir"
                /\ IF ~dir
                   THEN Finish(name, Raise(DirectoryNotFound(path)), {})
                   ELSE /\ pc' = "spawn"
                        /\ UNCHANGED <<pullOutcome, strCalls, result>>
    /\ UNCHANGED <<base_repo_path, linkTarget, spawns, proc>>

\* subprocess.run fails before a process exists
SpawnFails(x) ==
    /\ pc = "spawn"
    /\ proc' = [proc EXCEPT !.state = "nospawn"]
    /\ \E pulled \in {PullTry(Raise(x))} :
           Finish(repo_name, pulled, PullExceptStrCalls(Raise(x)))
    /\ UNCHANGED <<base_repo_path, linkTarget, repo_name, repo_path, pulls,
                   spawns, isdir>>

\* subprocess.run starts git pull in repo_path and waits for it; the
\* environment decides whether the process overruns the wait bound
Spawn(overruns) ==
    /\ pc = "spawn"
    /\ spawns' = spawns + 1
    /\ proc' = [proc EXCEPT !.state = "running", !.overruns = overruns]
    /\ pc' = "running"
    /\ UNCHANGED <<base_repo_path, linkTarget, repo_name, repo_path, pulls,
                   isdir, pullOutcome, strCalls, result>>

\* the process exits within the wait bound and subprocess.run returns
ProcessExits(returncode, stdout, stderr) ==
    /\ pc = "running"
    /\ ~proc.overruns
    /\ proc' = [proc EXCEPT !.state = "exited", !.returncode = IntVal(returncode),
                            !.stdout = Str(stdout), !.stderr = Str(stderr)]
    /\ \E body \in {PullTryBody(returncode, stdout, stderr)} :
           \E pulled \in {PullTry(body)} :
               Finish(repo_name, pulled, PullExceptStrCalls(body))
    /\ UNCHANGED <<base_repo_path, linkTarget, repo_name, repo_path, pulls,
                   spawns, isdir>>

\* the process exits and subprocess.run fails on what it left
WaitFails(x) ==
    /\ pc = "running"
    /\ ~proc.overruns
    /\ proc' = [proc EXCEPT !.state = "fault"]
    /\ \E pulled \in {PullTry(Raise(x))} :
           Finish(repo_name, pulled, PullExceptStrCalls(Raise(x)))
    /\ UNCHANGED <<base_repo_path, linkTarget, repo_name, repo_path, pulls,
                   spawns, isdir>>

\* the wait bound passes: subprocess.run kills the process and raises
\* TimeoutExpired with what it had captured
TimeoutExpires(stdout, stderr) ==
    /\ pc = "running"
    /\ proc.overruns
    /\ proc' = [proc EXCEPT !.state = "timeout", !.stdout = stdout, !.stderr = stderr]
    /\ \E x \in {[Exc("TimeoutExpired", "Command '['git', 'pull']' timed out after "
                            \o IntToStr(GIT_OPERATION_TIMEOUT) \o " seconds")
                     EXCEPT !.stdout = stdout, !.stderr = stderr]} :
           \E pulled \in {PullTry(Raise(x))} :
               Finish(repo_name, pulled, PullExceptStrCalls(Raise(x)))
    /\ UNCHANGED <<base_repo_path, linkTarget, repo_name, repo_path, pulls,
                   spawns, isdir>>

\* the caller has the result; the service holds nothing of the call
Return ==
    /\ pc = "done"
    /\ pc' = "idle"
    /\ repo_name' = ""
    /\ repo_path' = ""
    /\ pulls' = 0
    /\ spawns' = 0
    /\ isdir' = "unasked"
    /\ proc' = NoProc
    /\ pullOutcome' = NoOutcome
    /\ strCalls' = {}
    /\ result' = NoResult
    /\ UNCHANGED <<base_repo_path, linkTarget>>

Call == \E name \in RepoNames, dir \in BOOLEAN : UpdateRepository(name, dir)
SpawnFailure == \E x \in SpawnFaults : SpawnFails(x)
Spawned == \E overruns \in BOOLEAN : Spawn(overruns)
Exit == \E rc \in ReturnCodes, out \in StdoutTexts, err \in StderrTexts :
            ProcessExits(rc, out, err)
WaitFailure == \E x \in WaitFaults : WaitFails(x)
Timeout ==
    \E out \in Captured(StdoutChars), err \in Captured(StderrChars) :
        TimeoutExpires(out, err)

Next == Call \/ SpawnFailure \/ Spawned \/ Exit \/ WaitFailure \/ Timeout \/ Return

Spec == Init /\ [][Next]_vars

\* The calls of one service, with base /r and no symbolic link in it:
\* update_repository runs on when it can, a process that stays within the
\* wait bound exits, and subprocess.run enforces the bound on one that does not
FairInit == Init /\ base_repo_path = "/r" /\ linkTarget = ""

FairSpec ==
    /\ FairInit
    /\ [][Next]_vars
    /\ WF_vars(SpawnFailure \/ Spawned)
    /\ WF_vars(Exit \/ WaitFailure)
    /\ WF_vars(Timeout)
    /\ WF_vars(Return)

---------------------------------------------------------------------------
(* Properties *)

\* what the properties say of a name, a path and an error, in their own terms
HasDotDot(name) == \E i \in 1..(Len(name) - 1) : SubSeq(name, i, i + 1) = ".."
IsAbsolute(name) == Len(name) > 0 /\ SubSeq(name, 1, 1) = "/"
NameAccepted(name) == ~HasDotDot(name) /\ ~IsAbsolute(name)

\* `path` is the directory `base` or lies below it
InsideBase(base, path) ==
    \/ path = base
    \/ startswith(path, IF endswith(base, "/") THEN base ELSE base \o "/")

Raised(outcome, cls) == outcome.kind = "raise" /\ outcome.exc.cls = cls

Placeholder == "No new output from git pull."

NonZeroExit ==
    pc = "done" /\ proc.state = "exited" /\ proc.returncode # IntVal(0)

ZeroExit ==
    pc = "done" /\ proc.state = "exited" /\ proc.returncode = IntVal(0)

C2_NonZeroExitCarriesCode ==
    /\ NonZeroExit =>
           /\ Raised(pullOutcome, "GitPullFailedError")
           /\ pullOutcome.exc.message = "Git pull operation failed."
           /\ pullOutcome.exc.returncode = proc.returncode
           /\ pullOutcome.exc.stderr = proc.stderr
           /\ pullOutcome.exc.stdout = proc.stdout
           /\ pullOutcome.exc.cmd_str = "git pull"
    /\ (pc = "done" /\ pullOutcome.kind = "raise"
            /\ pullOutcome.exc.returncode = None) =>
           proc.state \in {"none", "nospawn", "timeout", "fault"}

C4_SuccessOutput ==
    ZeroExit =>
        /\ result.kind = "return"
        /\ result.value.status = "success"
        /\ result.value.output =
               IF proc.stdout[2] # "" THEN proc.stdout[2] ELSE Placeholder
        /\ result.value.output # ""

C4_Witness ==
    /\ ZeroExit
    /\ proc.stdout = Str("")
    /\ result.value.output = Placeholder

\* C5: after a non-zero exit with non-blank standard error s, the call
\* raises a RepositoryServiceError whose message contains the repository
\* name and s stripped of surrounding whitespace.
C5_ErrorKeepsStderr ==
    (NonZeroExit /\ strip(proc.stderr[2]) # "") =>
        /\ Raised(result, "RepositoryServiceError")
        /\ Contains("'" \o repo_name \o "'", result.exc.message)
        /\ Contains("'" \o strip(proc.stderr[2]) \o "'", result.exc.message)

C5_Witness ==
    /\ NonZeroExit
    /\ proc.stderr = Str(" X")
    /\ repo_name = "a/a"
    /\ Raised(result, "RepositoryServiceError")

\* C6: a call whose name is accepted but whose path leads outside the base
\* directory ends with the path-escape RepositoryServiceError without a
\* pull_updates invocation or a process; pull_updates is only ever invoked
\* on a directory inside the base directory.
C6_PullOnlyInsideBase ==
    /\ (pc # "idle" /\ NameAccepted(repo_name)
            /\ ~InsideBase(base_repo_path,
                           RealPath(base_repo_path, linkTarget,
                                    join(base_repo_path, repo_name)))) =>
           /\ pc = "done"
           /\ Raised(result, "RepositoryServiceError")
           /\ startswith(result.exc.message, "Invalid repository path for '")
           /\ pulls = 0
           /\ spawns = 0
    /\ pulls > 0 =>
           InsideBase(base_repo_path,
                      RealPath(base_repo_path, linkTarget, repo_path))

TimeoutMessage == "Git operation timed out after 60 seconds."

TimedOut ==
    /\ pc = "done"
    /\ proc.state = "timeout"
    /\ Raised(pullOutcome, "GitPullFailedError")
    /\ pullOutcome.exc.message = TimeoutMessage
    /\ pullOutcome.exc.returncode = None
    /\ pullOutcome.exc.stderr = proc.stderr
    /\ pullOutcome.exc.stdout = proc.stdout
    /\ Raised(result, "RepositoryServiceError")
    /\ Contains(TimeoutMessage, result.exc.message)

\* C7: a call waiting on a process that does not return within the wait
\* bound eventually ends: pull_updates raises the timed-out
\* GitPullFailedError (no exit code, the captured streams) and
\* update_repository raises a RepositoryServiceError with that detail.
C7_TimeoutEndsCall == (pc = "running" /\ proc.overruns) ~> TimedOut

C7_Witness == TimedOut /\ proc.overruns /\ proc.stderr = Bytes("X")

\* C8: when repo_dir is no directory, pull_updates raises the
\* directory-not-found GitPullFailedError, without exit code and with the
\* command recorded, and the call spawns no process.
C8_NoDirectoryNoProcess ==
    (pc # "idle" /\ isdir = "nodir") =>
        /\ pc = "done"
        /\ Raised(pullOutcome, "GitPullFailedError")
        /\ pullOutcome.exc.message = "Repository directory not found: " \o repo_path
        /\ pullOutcome.exc.returncode = None
        /\ pullOutcome.exc.cmd_str = "git pull"
        /\ spawns = 0
        /\ proc.state = "none"

C8_Witness ==
    /\ pc = "done"
    /\ isdir = "nodir"
    /\ pulls = 1
    /\ Raised(pullOutcome, "GitPullFailedError")

\* the stripped content of a captured stream that is text, else nothing
Shown(v) == IF v # None /\ v[1] = "str" THEN strip(v[2]) ELSE ""
Opt(cond, s) == IF cond THEN " " \o s ELSE ""
Sentence(e) ==
    "Command '" \o e.cmd_str \o "' returned non-zero exit status "
        \o IntToStr(e.returncode[2]) \o "."
NoOutputNote(e) ==
    "Git Stderr/Stdout: <No output or only whitespace produced by git command. Raw Stderr: "
        \o repr(e.stderr) \o ", Raw Stdout: " \o repr(e.stdout) \o ">"
RenderedWithoutCode(e) ==
    e.message
        \o Opt(~Contains(e.cmd_str, e.message),
               "(Command intended: '" \o e.cmd_str \o "')")
        \o Opt(Shown(e.stderr) # "",
               "Git Stderr (captured): '" \o Shown(e.stderr) \o "'")
        \o Opt(Shown(e.stderr) = "" /\ Shown(e.stdout) # "",
               "Git Stdout (captured): '" \o Shown(e.stdout) \o "'")

\* C9, as claimed: every rendering shows at most one captured stream; with
\* an exit code it is the sentence followed by the quoted standard error if
\* that has content, and otherwise by the quoted standard output if that has.
C9_OneStreamShown ==
    \A r \in strCalls :
        LET e == r.err
        IN  IF e.returncode # None
            THEN /\ startswith(r.text, Sentence(e))
                 /\ Shown(e.stderr) # "" =>
                        r.text = Sentence(e)
                                     \o " Git Stderr: '" \o Shown(e.stderr) \o "'"
                 /\ (Shown(e.stderr) = "" /\ Shown(e.stdout) # "") =>
                        r.text = Sentence(e)
                                     \o " Git Stdout: '" \o Shown(e.stdout) \o "'"
            ELSE r.text = RenderedWithoutCode(e)

\* C9, amended: with an exit code the rendering is the sentence followed by
\* the quoted standard error if that has content and by the quoted standard
\* output if that has content (both when both have), or by the no-output
\* note when neither has; without an exit code it is the message, the
\* command note unless the message contains the command, then the quoted
\* standard error if that has content, else the quoted standard output.
C9_Rendering ==
    \A r \in strCalls :
        LET e == r.err
        IN  IF e.returncode # None
            THEN r.text =
                     Sentence(e)
                         \o Opt(Shown(e.stderr) # "",
                                "Git Stderr: '" \o Shown(e.stderr) \o "'")
                         \o Opt(Shown(e.stdout) # "",
                                "Git Stdout: '" \o Shown(e.stdout) \o "'")
                         \o Opt(Shown(e.stderr) = "" /\ Shown(e.stdout) = "",
                                NoOutputNote(e))
            ELSE r.text = RenderedWithoutCode(e)

C9_Witness ==
    \E r \in strCalls :
        /\ r.err.returncode # None
        /\ Shown(r.err.stderr) # ""
        /\ Shown(r.err.stdout) # ""
        /\ Contains("Git Stderr: '", r.text)
        /\ Contains("Git Stdout: '", r.text)

\* C10: for every accepted name the normalized join of the base directory
\* and the name begins with the base directory, the call never ends with
\* the path-escape error, and it invokes pull_updates; the empty name and
\* '.' lead to the base directory itself.
C10_AcceptedNameReachesPull ==
    (pc # "idle" /\ NameAccepted(repo_name)) =>
        /\ startswith(abspath(join(base_repo_path, repo_name)), base_repo_path)
        /\ InsideBase(base_repo_path, abspath(join(base_repo_path, repo_name)))
        /\ ~(result.kind = "raise"
                /\ startswith(result.exc.message, "Invalid repository path"))
        /\ pulls = 1
        /\ repo_path = join(base_repo_path, repo_name)
        /\ repo_name \in {"", "."} => abspath(repo_path) = base_repo_path

C10_Witness ==
    /\ pc = "spawn"
    /\ repo_name = "."
    /\ pulls = 1
    /\ abspath(repo_path) = base_repo_path

====
